---- MODULE Spec2Model ----
(***************************************************************************)
(* Model of the category logger (package logger): the registry of loggers, *)
(* the caller side of Log/Logf/Logln (performLog), the two queues and the  *)
(* poller goroutine that serialises the writes (startPoller, performWrite).*)
(*                                                                         *)
(* Text is a sequence of one-character strings, so that lengths, columns   *)
(* and concatenation are computed as the code computes them.               *)
(*                                                                         *)
(* Three kinds of goroutine run concurrently: the caller threads that log, *)
(* one administrative thread that registers and configures loggers, and    *)
(* the poller.  A goroutine's step is atomic where it makes one access to  *)
(* shared memory that another goroutine may race with; l.count++ (a read   *)
(* and a write), SetCategoryPadding (a reset to 0 and a later store of the *)
(* maximum) and performWrite (two reads of categoryPadding) are split.     *)
(* A Go panic ends the process: no action is enabled once panic # "none".  *)
(***************************************************************************)
EXTENDS Integers, Sequences, FiniteSets, TLC

\* ---------------------------------------------------------------- bounds
MaxLoggers == 3      \* Logger values ever allocated (the Internal logger included)
MaxCalls == 3        \* Log/Logf/Logln calls ever started
MaxAdmin == 2        \* administrative calls started in a run without logging
MaxConcurrentAdmin == 1  \* administrative calls started in a run with logging
MaxQueueAdmin == 2   \* calls on the queues started in a run with logging
NumThreads == 2      \* caller threads
BufferSize == 2      \* capacity of logQueueBuffer in the model

\* ------------------------------------------------------------- text
NULL == "nil"
Writers == {"stdout", "file"}

LOG == <<"L", "O", "G">>
INFO == <<"I", "N", "F", "O">>
info == <<"i", "n", "f", "o">>
ERROR == <<"E", "R", "R", "O", "R">>
WARNING == <<"W", "A", "R", "N", "I", "N", "G">>
NoName == <<>>
\* the category names the calls of the model are given
Names == {NoName, LOG, ERROR, WARNING}
Formatters == {"nil", "SquareBracketWrapper"}

Threads == 1 .. NumThreads

Spaces(n) == [i \in 1 .. n |-> " "]

\* strings.Repeat(" ", count): panics on a negative count
RepeatPanics(count) == count < 0

ApplyFormatter(f, s) ==
    IF f = "SquareBracketWrapper" THEN <<"[">> \o s \o <<"]">> ELSE s

CategoryCompose(c) ==
    IF c.Name = <<>> \/ c.Formatter = "nil" THEN c.Name
    ELSE ApplyFormatter(c.Formatter, c.Name)

\* the default Timestamp (Format "01/02 15:04:05", no Formatter): the formatted
\* time is the one token "T", which occurs in no category name and no message
TimestampCompose == <<"T">>

\* the default Message component (no Formatter)
MessageCompose(message) == message

RawMessage == <<"m">>

VARIABLES
    heap,             \* the Logger values, by address 1 .. Len(heap)
    loggers,          \* the registry: addresses of the registered loggers
    categoryPadding,
    categoryGrouping,
    bufferEnabled,
    highestLoggerID,
    logQueueBuffer,   \* the buffered channel
    maxCategorySize,
    previousCategory,
    workerPc,         \* "select" | "dequeued" | "padded" | "exited"
    workerItem,       \* the queueItem the poller holds, with performWrite's locals
    pc,               \* per caller thread: "idle" | "incr" | "send" | "sendBuffer"
    frame,            \* per caller thread: performLog's locals
    adminPc,          \* "idle" | "adding" | "recompute" | "stopping"
    addQueue,         \* AddLogger's arguments not yet registered
    panic,            \* "none", or the runtime panic that ended the process
    written,          \* history: the lines written, in order
    dequeued,         \* history: the queueItems the poller received, in order
    calls,            \* history: per call, its logger, the logger's Enabled flag and
                      \* Writer then, its rank among the sends to logQueueBuffer, and
                      \* whether it is a Logln call
    nAdmin,           \* history: administrative calls started
    lastOp            \* history: the last administrative call and its arguments

vars == <<heap, loggers, categoryPadding, categoryGrouping, bufferEnabled,
          highestLoggerID, logQueueBuffer, maxCategorySize, previousCategory,
          workerPc, workerItem, pc, frame, adminPc, addQueue, panic,
          written, dequeued, calls, nAdmin, lastOp>>

registryVars == <<heap, loggers, categoryPadding, highestLoggerID,
                  maxCategorySize, adminPc, addQueue>>
flagVars == <<categoryGrouping, bufferEnabled>>
workerVars == <<logQueueBuffer, previousCategory, workerPc, workerItem,
                written, dequeued>>
callerVars == <<pc, frame, calls>>
adminHist == <<nAdmin, lastOp>>

NoItem == [writer |-> NULL, category |-> [Name |-> <<>>, Formatter |-> "nil"],
           message |-> <<>>, call |-> 0, padding |-> <<>>, paddingOn |-> FALSE,
           maxSeen |-> 0]
NoFrame == [l |-> 0, item |-> NoItem, count |-> 0]

Running == panic = "none"

\* lastOp when the last administrative call is neither a registry call nor one
\* of the bulk enable calls
OtherOp == [op |-> "other"]

Max(S) == IF S = {} THEN 0 ELSE CHOOSE x \in S : \A y \in S : y <= x

Last(s) == s[Len(s)]

\* ------------------------------------------------------------ registry

\* NewLogger's struct literal
NewLoggerValue(handle, category, enabled, id) ==
    [Category |-> [Name |-> category, Formatter |-> "SquareBracketWrapper"],
     Writer |-> handle, Enabled |-> enabled, id |-> id, count |-> 0]

\* a Logger built by the caller as a struct literal: the unexported fields
\* id and count are zero
LiteralLoggerValue(handle, category, formatter, enabled) ==
    [Category |-> [Name |-> category, Formatter |-> formatter],
     Writer |-> handle, Enabled |-> enabled, id |-> 0, count |-> 0]

\* (mutant) the length of the category name, not of the composed category
MaxNameSize(h, ls) == Max({Len(h[p].Category.Name) : p \in ls})

\* the loop of SetCategoryPadding over the registry
MaxComposedSize(h, ls) == Max({Len(CategoryCompose(h[p].Category)) : p \in ls})

\* the package's variable initialisers, Internal = NewLogger(os.Stdout, "LOG", true),
\* and init(), which starts the poller; then the package-level declaration of a
\* client, Info = logger.NewLogger(os.Stdout, "INFO", false), as in cmd/logger
Init ==
    /\ heap = <<NewLoggerValue("stdout", LOG, TRUE, 0),
                NewLoggerValue("stdout", INFO, FALSE, 1)>>
    /\ loggers = {1, 2}
    /\ categoryPadding = TRUE
    /\ categoryGrouping = TRUE
    /\ bufferEnabled = FALSE
    /\ highestLoggerID = 1
    /\ logQueueBuffer = <<>>
    /\ maxCategorySize = MaxComposedSize(heap, loggers)
    /\ previousCategory = <<>>
    /\ workerPc = "select"
    /\ workerItem = NoItem
    /\ pc = [t \in Threads |-> "idle"]
    /\ frame = [t \in Threads |-> NoFrame]
    /\ adminPc = "idle"
    /\ addQueue = <<>>
    /\ panic = "none"
    /\ written = <<>>
    /\ dequeued = <<>>
    /\ calls = <<>>
    /\ nAdmin = 0
    /\ lastOp = OtherOp

AdminReady == Running /\ adminPc = "idle"

\* SetCategoryPadding up to the loop: the flag is stored and maxCategorySize reset
PaddingReset(enabled, rest) ==
    /\ categoryPadding' = enabled
    /\ maxCategorySize' = 0
    /\ adminPc' = IF enabled THEN "recompute"
                  ELSE IF rest = <<>> THEN "idle" ELSE "adding"
    /\ addQueue' = rest

\* SetCategoryPadding from the loop on: maxCategorySize = tempMax; then back to
\* the caller (AddLogger's loop when it has loggers left)
Recompute ==
    /\ Running /\ adminPc = "recompute"
    /\ maxCategorySize' = MaxComposedSize(heap, loggers)
    /\ adminPc' = IF addQueue = <<>> THEN "idle" ELSE "adding"
    /\ UNCHANGED <<heap, loggers, categoryPadding, highestLoggerID, addQueue>>
    /\ UNCHANGED <<flagVars, workerVars, callerVars, adminHist, panic>>

SetCategoryPadding(enabled) ==
    /\ AdminReady
    /\ PaddingReset(enabled, <<>>)
    /\ nAdmin' = nAdmin + 1
    /\ lastOp' = [op |-> "SetCategoryPadding", enabled |-> enabled]
    /\ UNCHANGED <<heap, loggers, highestLoggerID>>
    /\ UNCHANGED <<flagVars, workerVars, callerVars, panic>>

NewLogger(handle, category, enabled) ==
    /\ AdminReady
    /\ Len(heap) < MaxLoggers
    /\ highestLoggerID' = highestLoggerID + 1
    /\ heap' = Append(heap, NewLoggerValue(handle, category, enabled, highestLoggerID'))
    /\ loggers' = loggers \cup {Len(heap')}
    /\ PaddingReset(categoryPadding, <<>>)
    /\ nAdmin' = nAdmin + 1
    /\ lastOp' = [op |-> "NewLogger"]
    /\ UNCHANGED <<flagVars, workerVars, callerVars, panic>>

\* &Logger{...}: a Logger value the caller builds itself, not registered
LoggerLiteral(handle, category, formatter, enabled) ==
    /\ AdminReady
    /\ Len(heap) < MaxLoggers
    /\ heap' = Append(heap, LiteralLoggerValue(handle, category, formatter, enabled))
    /\ nAdmin' = nAdmin + 1
    /\ lastOp' = OtherOp
    /\ UNCHANGED <<loggers, categoryPadding, highestLoggerID, maxCategorySize,
                   adminPc, addQueue>>
    /\ UNCHANGED <<flagVars, workerVars, callerVars, panic>>

\* one iteration of AddLogger's loop, for newLogger, with rest still to come
AddLoggerIteration(newLogger, rest) ==
    /\ highestLoggerID' = highestLoggerID + 1
    /\ heap' = [heap EXCEPT ![newLogger].id = highestLoggerID']
    /\ loggers' = loggers \cup {newLogger}
    /\ PaddingReset(categoryPadding, rest)

AddLogger(newLoggers) ==
    /\ AdminReady
    /\ IF newLoggers = <<>>
       THEN UNCHANGED registryVars
       ELSE AddLoggerIteration(Head(newLoggers), Tail(newLoggers))
    /\ nAdmin' = nAdmin + 1
    /\ lastOp' = [op |-> "AddLogger", n |-> Len(newLoggers)]
    /\ UNCHANGED <<flagVars, workerVars, callerVars, panic>>

AddLoggerNext ==
    /\ Running /\ adminPc = "adding"
    /\ AddLoggerIteration(Head(addQueue), Tail(addQueue))
    /\ UNCHANGED <<flagVars, workerVars, callerVars, adminHist, panic>>

\* --------------------------------------------------- administrative controls

SetCategoryGrouping(enabled) ==
    /\ AdminReady
    /\ categoryGrouping' = enabled
    /\ nAdmin' = nAdmin + 1
    /\ lastOp' = OtherOp
    /\ UNCHANGED <<registryVars, bufferEnabled, workerVars, callerVars, panic>>

SetBuffered(useBuffer) ==
    /\ AdminReady
    /\ bufferEnabled' = useBuffer
    /\ nAdmin' = nAdmin + 1
    /\ lastOp' = OtherOp
    /\ UNCHANGED <<registryVars, categoryGrouping, workerVars, callerVars, panic>>

\* Logger.Enable and Logger.Disable
SetEnabled(l, enabled) ==
    /\ AdminReady
    /\ l \in 1 .. Len(heap)
    /\ heap' = [heap EXCEPT ![l].Enabled = enabled]
    /\ nAdmin' = nAdmin + 1
    /\ lastOp' = OtherOp
    /\ UNCHANGED <<loggers, categoryPadding, highestLoggerID, maxCategorySize,
                   adminPc, addQueue>>
    /\ UNCHANGED <<flagVars, workerVars, callerVars, panic>>

\* (mutant) category names compared without regard to case
ToUpper(name) ==
    [i \in 1 .. Len(name) |->
        CASE name[i] = "i" -> "I" [] name[i] = "n" -> "N" [] name[i] = "f" -> "F"
          [] name[i] = "o" -> "O" [] OTHER -> name[i]]
CategoryMatchesAnyCase(name, categories) ==
    \E c \in categories : ToUpper(name) = ToUpper(c)

\* the test of SetEnabledByCategory's inner loop, over the whole list
CategoryMatches(name, categories) == \E c \in categories : name = c

\* the Enabled flag SetEnabledByCategory leaves in logger l
EnabledAfterByCategory(h, ls, l, enabled, categories) ==
    IF l \in ls /\ CategoryMatches(h[l].Category.Name, categories)
    THEN enabled ELSE h[l].Enabled

SetEnabledByCategory(enabled, categories) ==
    /\ AdminReady
    /\ heap' = [l \in 1 .. Len(heap) |->
                  [heap[l] EXCEPT !.Enabled =
                      EnabledAfterByCategory(heap, loggers, l, enabled, categories)]]
    /\ nAdmin' = nAdmin + 1
    /\ lastOp' = [op |-> "SetEnabledByCategory", enabled |-> enabled,
                  categories |-> categories]
    /\ UNCHANGED <<loggers, categoryPadding, highestLoggerID, maxCategorySize,
                   adminPc, addQueue>>
    /\ UNCHANGED <<flagVars, workerVars, callerVars, panic>>

\* (mutant) the threshold itself left out
EnabledBelowID(id, loggerID) == id < loggerID

\* the value SetEnabledByID stores in l.Enabled
EnabledByID(id, loggerID) == id <= loggerID

SetEnabledByID(loggerID) ==
    /\ AdminReady
    /\ heap' = [l \in 1 .. Len(heap) |->
                  IF l \in loggers
                  THEN [heap[l] EXCEPT !.Enabled = EnabledByID(heap[l].id, loggerID)]
                  ELSE heap[l]]
    /\ nAdmin' = nAdmin + 1
    /\ lastOp' = [op |-> "SetEnabledByID", loggerID |-> loggerID]
    /\ UNCHANGED <<loggers, categoryPadding, highestLoggerID, maxCategorySize,
                   adminPc, addQueue>>
    /\ UNCHANGED <<flagVars, workerVars, callerVars, panic>>

\* an assignment to the public field l.Category
SetCategory(l, name, formatter) ==
    /\ AdminReady
    /\ l \in 1 .. Len(heap)
    /\ heap' = [heap EXCEPT ![l].Category = [Name |-> name, Formatter |-> formatter]]
    /\ nAdmin' = nAdmin + 1
    /\ lastOp' = OtherOp
    /\ UNCHANGED <<loggers, categoryPadding, highestLoggerID, maxCategorySize,
                   adminPc, addQueue>>
    /\ UNCHANGED <<flagVars, workerVars, callerVars, panic>>

\* an assignment to the public field l.Writer
SetWriter(l, handle) ==
    /\ AdminReady
    /\ l \in 1 .. Len(heap)
    /\ heap' = [heap EXCEPT ![l].Writer = handle]
    /\ nAdmin' = nAdmin + 1
    /\ lastOp' = OtherOp
    /\ UNCHANGED <<loggers, categoryPadding, highestLoggerID, maxCategorySize,
                   adminPc, addQueue>>
    /\ UNCHANGED <<flagVars, workerVars, callerVars, panic>>

\* ------------------------------------------------------------ performLog

\* (mutant) no newline of its own for Logln
ComposedMessageNoNewline(message, newline) ==
    TimestampCompose \o <<" ">> \o MessageCompose(message)

\* the message performLog composes: timestamp, a space, the message text, and a
\* newline of its own for Logln
ComposedMessage(message, newline) ==
    LET text == TimestampCompose \o <<" ">> \o MessageCompose(message)
    IN IF newline THEN text \o <<"\n">> ELSE text

\* (mutant) the Enabled test left out
LogAcceptedAlways(h, l) == TRUE

\* (mutant) the Enabled test inverted: if l.Enabled { return }
LogAcceptedIfDisabled(h, l) == ~h[l].Enabled

\* the test that lets performLog go on: l.Enabled
LogAccepted(h, l) == h[l].Enabled

\* performLog up to the read of l.count, taken as one step: the Enabled test, the
\* composed message, the queueItem (a snapshot of Writer and Category) and the
\* read half of l.count++
LogBegin(t, l, newline) ==
    /\ Running /\ pc[t] = "idle"
    /\ Len(calls) < MaxCalls
    /\ l \in 1 .. Len(heap)
    /\ calls' = Append(calls, [l |-> l, enabled |-> heap[l].Enabled,
                                writer |-> heap[l].Writer, sent |-> 0,
                                newline |-> newline])
    /\ IF LogAccepted(heap, l)
       THEN /\ frame' = [frame EXCEPT ![t] =
                  [l |-> l,
                   item |-> [NoItem EXCEPT !.writer = heap[l].Writer,
                                           !.category = heap[l].Category,
                                           !.message = ComposedMessage(RawMessage, newline),
                                           !.call = Len(calls')],
                   count |-> heap[l].count]]
            /\ pc' = [pc EXCEPT ![t] = "incr"]
       ELSE UNCHANGED <<pc, frame>>
    /\ UNCHANGED <<registryVars, flagVars, workerVars, adminHist, panic>>

\* (mutant) every entry sent to the buffered channel
SendPathBufferOnly(useBuffer) == "sendBuffer"

\* the channel performLog sends to: logQueueBuffer if bufferEnabled, else logQueue
SendPath(useBuffer) == IF useBuffer THEN "sendBuffer" ELSE "send"

\* the store of l.count++ and the read of bufferEnabled
LogIncr(t) ==
    /\ Running /\ pc[t] = "incr"
    /\ heap' = [heap EXCEPT ![frame[t].l].count = frame[t].count + 1]
    /\ pc' = [pc EXCEPT ![t] = SendPath(bufferEnabled)]
    /\ UNCHANGED <<loggers, categoryPadding, highestLoggerID, maxCategorySize,
                   adminPc, addQueue>>
    /\ UNCHANGED <<flagVars, workerVars, frame, calls, adminHist, panic>>

\* the number of calls that have sent their entry to logQueueBuffer
NumSent == Cardinality({c \in 1 .. Len(calls) : calls[c].sent > 0})

\* (mutant) the entry put at the head of the queue
ChannelSendFront(q, item) == <<item>> \o q

\* a send to the buffered channel: the entry goes behind those it holds
ChannelSend(q, item) == Append(q, item)

\* (mutant) a channel of one slot less: make(chan queueItem, BufferSize-1)
BufferHasRoomOneLess(q) == Len(q) < BufferSize - 1

\* a send to logQueueBuffer = make(chan queueItem, BufferSize) can proceed
BufferHasRoom(q) == Len(q) < BufferSize

\* logQueueBuffer <- newMsg: blocks while the buffer is full
LogSendBuffer(t) ==
    /\ Running /\ pc[t] = "sendBuffer"
    /\ BufferHasRoom(logQueueBuffer)
    /\ logQueueBuffer' = ChannelSend(logQueueBuffer, frame[t].item)
    /\ pc' = [pc EXCEPT ![t] = "idle"]
    /\ frame' = [frame EXCEPT ![t] = NoFrame]
    /\ calls' = [calls EXCEPT ![frame[t].item.call].sent = NumSent + 1]
    /\ UNCHANGED <<registryVars, flagVars, previousCategory, workerPc, workerItem,
                   written, dequeued, adminHist, panic>>

\* ------------------------------------------------------------- the poller

\* (mutant) a receive that does not wait for performWrite to return
PollerSelectingEarly == workerPc # "exited"

\* (mutant) case <-exitCh leaves the select only, not the loop
PollerSelectingAfterExit == workerPc \in {"select", "exited"}

\* the poller is at its select, ready to receive
PollerSelecting == workerPc = "select"

\* case queueItem := <-logQueue, with the sender's logQueue <- newMsg
ReceiveSync(t) ==
    /\ Running /\ PollerSelecting
    /\ pc[t] = "send"
    /\ workerItem' = frame[t].item
    /\ workerPc' = "dequeued"
    /\ dequeued' = Append(dequeued, frame[t].item)
    /\ pc' = [pc EXCEPT ![t] = "idle"]
    /\ frame' = [frame EXCEPT ![t] = NoFrame]
    /\ UNCHANGED <<registryVars, flagVars, logQueueBuffer, previousCategory,
                   written, calls, adminHist, panic>>

\* case queueItem := <-logQueueBuffer
ReceiveBuffered ==
    /\ Running /\ PollerSelecting
    /\ logQueueBuffer # <<>>
    /\ workerItem' = Head(logQueueBuffer)
    /\ workerPc' = "dequeued"
    /\ dequeued' = Append(dequeued, Head(logQueueBuffer))
    /\ logQueueBuffer' = Tail(logQueueBuffer)
    /\ UNCHANGED <<registryVars, flagVars, previousCategory, written, callerVars,
                   adminHist, panic>>

\* StopPoller up to its send, exitCh <- struct{}{}, which blocks until the poller
\* receives
StopPoller ==
    /\ AdminReady
    /\ adminPc' = "stopping"
    /\ nAdmin' = nAdmin + 1
    /\ lastOp' = OtherOp
    /\ UNCHANGED <<heap, loggers, categoryPadding, highestLoggerID, maxCategorySize,
                   addQueue>>
    /\ UNCHANGED <<flagVars, workerVars, callerVars, panic>>

\* case <-exitCh: return, with the sender's exitCh <- struct{}{}
ReceiveExit ==
    /\ Running /\ PollerSelecting
    /\ adminPc = "stopping"
    /\ workerPc' = "exited"
    /\ adminPc' = "idle"
    /\ UNCHANGED <<heap, loggers, categoryPadding, highestLoggerID, maxCategorySize,
                   addQueue>>
    /\ UNCHANGED <<flagVars, logQueueBuffer, previousCategory, workerItem, written,
                   dequeued, callerVars, adminHist, panic>>

\* (mutant) the space that separates the category from the timestamp left out
PaddingCountNoGap(maxSize, currentCategory) == maxSize - Len(currentCategory)

\* the count performWrite passes to strings.Repeat when padding is enabled
PaddingCount(maxSize, currentCategory) == maxSize - Len(currentCategory) + 1

\* performWrite, lines 163-169: the first read of categoryPadding
PerformWritePad ==
    /\ Running /\ workerPc = "dequeued"
    /\ LET currentCategory == CategoryCompose(workerItem.category)
           count == PaddingCount(maxCategorySize, currentCategory)
       IN IF categoryPadding /\ RepeatPanics(count)
          THEN /\ panic' = "strings: negative Repeat count"
               /\ UNCHANGED <<workerPc, workerItem>>
          ELSE /\ workerItem' = [workerItem EXCEPT
                      !.padding = IF categoryPadding THEN Spaces(count) ELSE <<>>,
                      !.paddingOn = categoryPadding,
                      !.maxSeen = maxCategorySize]
               /\ workerPc' = "padded"
               /\ UNCHANGED panic
    /\ UNCHANGED <<registryVars, flagVars, logQueueBuffer, previousCategory,
                   written, dequeued, callerVars, adminHist>>

\* (mutant) the previous category name compared with the composed category text
GroupedByComposedText(grouping, previous, category) ==
    IF grouping /\ previous = CategoryCompose(category)
    THEN Spaces(Len(CategoryCompose(category)))
    ELSE CategoryCompose(category)

\* the category text performWrite puts in the line: blanked when grouped
GroupedCategory(grouping, previous, category) ==
    IF grouping /\ previous = category.Name
    THEN Spaces(Len(CategoryCompose(category)))
    ELSE CategoryCompose(category)

\* the padding after the second test of categoryPadding
FinalPadding(padding, padEnabled, category) ==
    IF category.Name # <<>> /\ padEnabled = FALSE THEN padding \o <<" ">> ELSE padding

\* the text performWrite hands to fmt.Fprintln
LineText(item, grouping, previous, padEnabled) ==
    GroupedCategory(grouping, previous, item.category)
        \o FinalPadding(item.padding, padEnabled, item.category)
        \o item.message

\* fmt.Fprintln(w, a): w.Write on a nil interface value is a nil dereference
FprintlnPanics(w) == w = NULL

\* (mutant) the composed category text remembered instead of the name
PreviousComposedText(item) == CategoryCompose(item.category)

\* the value performWrite leaves in previousCategory: queueItem.category.Name
PreviousAfterWrite(item) == item.category.Name

\* (mutant) the Writer the entry's logger has when the entry is written
LoggerWriterNow(item) == heap[calls[item.call].l].Writer

\* the destination performWrite writes to: queueItem.writer
ItemWriter(item) == item.writer

\* performWrite, lines 170-183
PerformWriteOut ==
    /\ Running /\ workerPc = "padded"
    /\ IF FprintlnPanics(ItemWriter(workerItem))
       THEN /\ panic' = "nil pointer dereference"
            /\ UNCHANGED <<workerPc, workerItem, written, previousCategory>>
       ELSE /\ written' = Append(written,
                    [writer |-> ItemWriter(workerItem),
                     text |-> LineText(workerItem, categoryGrouping, previousCategory,
                                       categoryPadding) \o <<"\n">>,
                     call |-> workerItem.call])
            /\ previousCategory' = PreviousAfterWrite(workerItem)
            /\ workerPc' = "select"
            /\ workerItem' = NoItem
            /\ UNCHANGED panic
    /\ UNCHANGED <<registryVars, flagVars, logQueueBuffer, dequeued, callerVars,
                   adminHist>>

\* ------------------------------------------------------------ specification

CategoryLists == {{}, {INFO}, {info}, {LOG, ERROR}}
AddLists == {<<>>} \cup {<<l>> : l \in 1 .. MaxLoggers}
                   \cup {<<l, m>> : l, m \in 1 .. MaxLoggers}

\* the calls of the administrative thread, while it has started fewer than max
AdminCall(max) ==
    \/ \E h \in {"stdout", NULL}, c \in Names, e \in BOOLEAN :
          nAdmin < max /\ NewLogger(h, c, e)
    \/ \E c \in Names, f \in Formatters :
          nAdmin < max /\ LoggerLiteral("stdout", c, f, TRUE)
    \/ \E ls \in AddLists :
          /\ nAdmin < max
          /\ \A i \in 1 .. Len(ls) : ls[i] <= Len(heap)
          /\ AddLogger(ls)
    \/ \E e \in BOOLEAN : nAdmin < max /\ SetCategoryPadding(e)
    \/ \E e \in BOOLEAN : nAdmin < max /\ SetCategoryGrouping(e)
    \/ \E b \in BOOLEAN : nAdmin < max /\ SetBuffered(b)
    \/ \E l \in 1 .. MaxLoggers, e \in BOOLEAN : nAdmin < max /\ SetEnabled(l, e)
    \/ \E e \in BOOLEAN, cs \in CategoryLists :
          nAdmin < max /\ SetEnabledByCategory(e, cs)
    \/ \E id \in -1 .. MaxLoggers - 1 : nAdmin < max /\ SetEnabledByID(id)
    \/ \E l \in 1 .. MaxLoggers, c \in Names, f \in Formatters :
          nAdmin < max /\ SetCategory(l, c, f)
    \/ \E l \in 1 .. MaxLoggers, h \in Writers \cup {NULL} :
          nAdmin < max /\ SetWriter(l, h)
    \/ nAdmin < max /\ StopPoller

\* the later steps of a call the administrative thread has started
AdminStep == AddLoggerNext \/ Recompute

Caller ==
    \/ \E t \in Threads, l \in 1 .. MaxLoggers, n \in BOOLEAN : LogBegin(t, l, n)
    \/ \E t \in Threads : LogIncr(t)
    \/ \E t \in Threads : LogSendBuffer(t)

Poller ==
    \/ \E t \in Threads : ReceiveSync(t)
    \/ ReceiveBuffered
    \/ ReceiveExit
    \/ PerformWritePad
    \/ PerformWriteOut

\* logging from the caller threads while the administrative thread makes at
\* most MaxConcurrentAdmin calls
Next ==
    \/ AdminCall(MaxConcurrentAdmin)
    \/ AdminStep
    \/ Caller
    \/ Poller

Spec == Init /\ [][Next]_vars

\* the administrative thread alone, with the poller idle at its select: up to
\* MaxAdmin calls, one after another
NextRegistry ==
    \/ AdminCall(MaxAdmin)
    \/ AdminStep
    \/ ReceiveExit

SpecRegistry == Init /\ [][NextRegistry]_vars

\* the calls that concern the queues: SetBuffered, an assignment to l.Writer and
\* StopPoller
QueueCall(max) ==
    \/ \E b \in BOOLEAN : nAdmin < max /\ SetBuffered(b)
    \/ \E l \in 1 .. MaxLoggers, h \in Writers \cup {NULL} :
          nAdmin < max /\ SetWriter(l, h)
    \/ nAdmin < max /\ StopPoller

\* logging from the caller threads while the administrative thread makes up to
\* MaxQueueAdmin of the calls that concern the queues
NextQueue ==
    \/ QueueCall(MaxQueueAdmin)
    \/ Caller
    \/ Poller

SpecQueue == Init /\ [][NextQueue]_vars

\* the calls that set Enabled flags: Enable and Disable, SetEnabledByCategory and
\* SetEnabledByID; with SetBuffered, for entries that wait in the buffer
EnableCall(max) ==
    \/ \E b \in BOOLEAN : nAdmin < max /\ SetBuffered(b)
    \/ \E l \in 1 .. MaxLoggers, e \in BOOLEAN : nAdmin < max /\ SetEnabled(l, e)
    \/ \E e \in BOOLEAN, cs \in CategoryLists :
          nAdmin < max /\ SetEnabledByCategory(e, cs)
    \/ \E id \in -1 .. MaxLoggers - 1 : nAdmin < max /\ SetEnabledByID(id)

\* the poller while StopPoller is not called
PollerWrites ==
    \/ \E t \in Threads : ReceiveSync(t)
    \/ ReceiveBuffered
    \/ PerformWritePad
    \/ PerformWriteOut

\* logging from the caller threads while the administrative thread makes up to
\* MaxQueueAdmin of the calls that set Enabled flags
NextEnable ==
    \/ EnableCall(MaxQueueAdmin)
    \/ Caller
    \/ PollerWrites

SpecEnable == Init /\ [][NextEnable]_vars

\* the log calls of one caller thread, issued one after another
CallerOf(t) ==
    \/ \E l \in 1 .. MaxLoggers, n \in BOOLEAN : LogBegin(t, l, n)
    \/ LogIncr(t)
    \/ LogSendBuffer(t)

\* a single caller logs while the administrative thread makes up to
\* MaxQueueAdmin of the calls that concern the queues
NextSingleCaller ==
    \/ QueueCall(MaxQueueAdmin)
    \/ CallerOf(1)
    \/ Poller

SpecSingleCaller == Init /\ [][NextSingleCaller]_vars

\* ------------------------------------------------------------------ claims

InFlight == workerPc \in {"dequeued", "padded"}

\* C1: the poller performs at most one write at a time, and the lines committed
\* to the destinations are exactly the entries it dequeued, in the order it
\* dequeued them: none reordered, none duplicated, none written beside another.
C1_WritesSerialisedInDequeueOrder ==
    /\ Len(dequeued) = Len(written) + (IF InFlight THEN 1 ELSE 0)
    /\ \A i \in 1 .. Len(written) :
          /\ written[i].call = dequeued[i].call
          /\ written[i].writer = dequeued[i].writer
    /\ InFlight => workerItem.call = Last(dequeued).call
    /\ \A i, j \in 1 .. Len(dequeued) :
          i # j => dequeued[i].call # dequeued[j].call

\* three lines written, the first of them for the call that started second
C1_Witness ==
    /\ Len(written) = 3
    /\ written[1].call = 2
    /\ written[2].call = 1

CallsOn(l) == {i \in 1 .. Len(calls) : calls[i].l = l}
EnabledCallsOn(l) == {i \in CallsOn(l) : calls[i].enabled}
CallFoundEnabled(cs, c) == cs[c].enabled

\* C2: a log call made while the logger's Enabled flag is false submits no entry,
\* causes no write and leaves every message count unchanged; and every entry that
\* is queued, held by a caller or the poller, or written comes from a call that
\* found its logger enabled, so a suppressed call is never replayed.
C2_DisabledCallsDoNothing ==
    [][/\ (Len(calls') > Len(calls) /\ ~Last(calls').enabled) =>
             UNCHANGED <<heap, logQueueBuffer, pc, frame, workerPc, workerItem,
                         written, dequeued>>
       /\ \A i \in 1 .. Len(written') : CallFoundEnabled(calls', written'[i].call)
       /\ \A i \in 1 .. Len(dequeued') : CallFoundEnabled(calls', dequeued'[i].call)
       /\ \A i \in 1 .. Len(logQueueBuffer') :
             CallFoundEnabled(calls', logQueueBuffer'[i].call)
       /\ \A t \in Threads :
             pc'[t] # "idle" => CallFoundEnabled(calls', frame'[t].item.call)
      ]_vars

\* a call on a disabled logger, then a call on the same logger, enabled again,
\* whose line is written: the only line, and the count is 1
C2_Witness ==
    \E l \in 1 .. Len(heap) :
        \E i, j \in CallsOn(l) :
            /\ i < j
            /\ ~calls[i].enabled
            /\ calls[j].enabled
            /\ Len(written) = 1
            /\ written[1].call = j
            /\ heap[l].count = 1

\* C3: once every log call issued on a logger has returned, Count() is the number
\* of those calls that found the logger enabled, also when several caller threads
\* log to the same logger at the same time.
C3_CountIsEnabledCalls ==
    (\A t \in Threads : pc[t] = "idle") =>
        \A l \in 1 .. Len(heap) : heap[l].count = Cardinality(EnabledCallsOn(l))

\* C4: an entry with a nil destination is a silent no-op for the poller: while it
\* handles such an entry no panic is raised.
C4_NilDestinationIsNoOp ==
    (workerPc = "padded" /\ workerItem.writer = NULL) => panic = "none"

\* a step of the poller that writes a line
WritesLine == Len(written') = Len(written) + 1

Max0(n) == IF n < 0 THEN 0 ELSE n

\* the three parts of a written line: label, padding, composed text and newline
LabelOf(text, item) == SubSeq(text, 1, Len(CategoryCompose(item.category)))
PaddingOf(text, item) ==
    SubSeq(text, Len(CategoryCompose(item.category)) + 1,
           Len(text) - Len(item.message) - 1)

\* C5: for every entry the poller handles, the padding between the category text
\* and the composed text is max(0, maxCategorySize - len(category text) + 1)
\* spaces when padding is enabled, never a negative amount (so no entry makes
\* strings.Repeat panic, here with maxCategorySize a value that a completed
\* registry call left); one space when padding is disabled and the category
\* name is not empty; nothing when padding is disabled and the name is empty.
C5_PaddingAsSpecified ==
    [][/\ adminPc = "idle" => panic' # "strings: negative Repeat count"
       /\ (WritesLine /\ workerItem.paddingOn = categoryPadding) =>
             PaddingOf(Last(written').text, workerItem) =
                 IF categoryPadding
                 THEN Spaces(Max0(workerItem.maxSeen
                                  - Len(CategoryCompose(workerItem.category)) + 1))
                 ELSE IF workerItem.category.Name # <<>> THEN <<" ">> ELSE <<>>
      ]_vars

\* C6: whenever padding is enabled and no registry call is under way,
\* maxCategorySize is at least the composed-category length of every registered
\* logger.
C6_MaxCoversRegistered ==
    (adminPc = "idle" /\ categoryPadding) =>
        \A l \in loggers : maxCategorySize >= Len(CategoryCompose(heap[l].Category))

\* the number of characters before the timestamp in a line
TimestampColumn(text) ==
    (CHOOSE i \in 1 .. Len(text) :
        text[i] = "T" /\ \A j \in 1 .. i - 1 : text[j] # "T") - 1

\* C7: with padding enabled, the timestamp of every line the poller writes starts
\* at column maxCategorySize + 1 (the value the poller read for that line),
\* whichever logger submitted the entry and whether or not grouping blanked the
\* category label.
C7_TimestampColumnAligned ==
    [][(WritesLine /\ workerItem.paddingOn /\ categoryPadding) =>
           TimestampColumn(Last(written').text) = workerItem.maxSeen + 1
      ]_vars

\* three lines written with padding enabled, from two loggers whose category
\* texts differ in length, the last with a blanked label: all timestamps in
\* column maxCategorySize + 1
C7_Witness ==
    /\ categoryPadding /\ adminPc = "idle"
    /\ Len(written) = 3
    /\ Len(CategoryCompose(dequeued[1].category))
          # Len(CategoryCompose(dequeued[2].category))
    /\ written[1].text[1] = "["
    /\ written[2].text[1] = "["
    /\ written[3].text[1] = " "
    /\ \A i \in 1 .. 3 : TimestampColumn(written[i].text) = maxCategorySize + 1

\* the category name of the write completed just before the next one: that of
\* the last entry written, or the empty name when nothing was written yet
PrecedingWriteName ==
    IF written = <<>> THEN <<>> ELSE dequeued[Len(written)].category.Name

\* C8: the category label of a written line is replaced by spaces of equal
\* length exactly when grouping is enabled at write time and the entry's category
\* name equals that of the immediately preceding completed write, from whichever
\* logger; otherwise the line shows the composed category text.
C8_BlankedIffSameAsPrecedingWrite ==
    [][WritesLine =>
           LabelOf(Last(written').text, workerItem) =
               IF categoryGrouping /\ PrecedingWriteName = workerItem.category.Name
               THEN Spaces(Len(CategoryCompose(workerItem.category)))
               ELSE CategoryCompose(workerItem.category)
      ]_vars

\* two loggers of one category name: the first line shows the label, the second
\* line, from the other logger, is blanked
C8_Witness ==
    /\ Len(written) >= 2
    /\ calls[written[1].call].l # calls[written[2].call].l
    /\ dequeued[1].category.Name = dequeued[2].category.Name
    /\ written[1].text[1] = "["
    /\ written[2].text[1] = " "

\* the label comes back after a write of another category name: LOG, then
\* another name, then LOG again, all three lines showing their labels
C8_WitnessReset ==
    /\ Len(written) = 3
    /\ dequeued[1].category.Name = LOG
    /\ dequeued[2].category.Name # LOG
    /\ dequeued[3].category.Name = LOG
    /\ \A i \in 1 .. 3 : written[i].text[1] = "["

\* C9: after SetEnabledByID(loggerID) every registered logger is enabled exactly
\* when its id is at most loggerID, whatever its flag was before; a negative
\* loggerID leaves every registered logger disabled.
C9_EnabledExactlyUpToID ==
    lastOp.op = "SetEnabledByID" =>
        /\ \A l \in loggers : heap[l].Enabled <=> (heap[l].id <= lastOp.loggerID)
        /\ lastOp.loggerID < 0 => \A l \in loggers : ~heap[l].Enabled

\* loggers with ids 0, 1, 2 after SetEnabledByID(1): 0 and 1 enabled (the Info
\* logger, id 1, was disabled before), 2 disabled
C9_Witness ==
    /\ lastOp.op = "SetEnabledByID" /\ lastOp.loggerID = 1
    /\ loggers = {1, 2, 3}
    /\ \A l \in loggers : heap[l].id = l - 1
    /\ heap[1].Enabled /\ heap[2].Enabled /\ ~heap[3].Enabled

\* a step that is a call of SetEnabledByCategory
IsSetEnabledByCategory == nAdmin' = nAdmin + 1 /\ lastOp'.op = "SetEnabledByCategory"

\* C10: SetEnabledByCategory(enabled, names...) stores enabled in the flag of
\* every registered logger whose category name is exactly one of the names, and
\* changes nothing else: no other flag, no id, no count, no category, no writer,
\* no padding or grouping state; with no name given nothing changes.
C10_SetEnabledByCategoryFrame ==
    [][IsSetEnabledByCategory =>
           /\ \A l \in 1 .. Len(heap) :
                 heap'[l] =
                     IF l \in loggers /\ heap[l].Category.Name \in lastOp'.categories
                     THEN [heap[l] EXCEPT !.Enabled = lastOp'.enabled]
                     ELSE heap[l]
           /\ lastOp'.categories = {} => heap' = heap
           /\ UNCHANGED <<loggers, categoryPadding, categoryGrouping, bufferEnabled,
                          highestLoggerID, maxCategorySize, previousCategory,
                          logQueueBuffer, written>>
      ]_vars

\* SetEnabledByCategory(true, "INFO") after the Internal logger logged: the Info
\* logger is enabled now, the Internal logger keeps its flag and its count
C10_Witness ==
    /\ lastOp.op = "SetEnabledByCategory"
    /\ lastOp.enabled /\ lastOp.categories = {INFO}
    /\ heap[2].Enabled /\ heap[2].Category.Name = INFO
    /\ heap[1].Enabled /\ heap[1].count = 1

\* ------------------------------------------------- claims on the registry

RegisteredIds(h, ls) == {h[l].id : l \in ls}

\* C11: after any sequence of NewLogger and AddLogger registrations the
\* registered loggers have pairwise distinct ids, the ids are exactly 0 .. n-1
\* for n registered loggers, and a logger registered later has a larger id than
\* one registered earlier: a registration gives the new logger an id above those
\* of the loggers registered before it and keeps their order.
C11_IdentitiesDenseAndOrdered ==
    [][/\ \A l, m \in loggers' : l # m => heap'[l].id # heap'[m].id
       /\ RegisteredIds(heap', loggers') = 0 .. Cardinality(loggers') - 1
       /\ \A l, m \in loggers :
             heap[l].id < heap[m].id => heap'[l].id < heap'[m].id
       /\ \A l \in loggers' \ loggers, m \in loggers : heap'[m].id < heap'[l].id
      ]_vars

\* C19: no operation changes the id of a logger that is registered already.
C19_IdentityAssignedOnce ==
    [][\A l \in loggers : heap'[l].id = heap[l].id]_vars

\* n is the maximum composed-category length over the loggers ls, 0 for none
IsMaxComposedLength(n, h, ls) ==
    IF ls = {} THEN n = 0
    ELSE /\ \A l \in ls : Len(CategoryCompose(h[l].Category)) <= n
         /\ \E l \in ls : Len(CategoryCompose(h[l].Category)) = n

RegistrationOps == {"NewLogger", "AddLogger"}

\* the last administrative call registered a logger, and has returned
Registered ==
    /\ adminPc = "idle"
    /\ lastOp.op = "NewLogger" \/ (lastOp.op = "AddLogger" /\ lastOp.n > 0)

\* C20: when SetCategoryPadding(true) has returned, and when a NewLogger or
\* AddLogger call that registered a logger with padding enabled has returned,
\* maxCategorySize is the maximum composed-category length over the registered
\* loggers; a registration made while padding is disabled leaves it disabled.
C20_MaxRecomputedOnRegistration ==
    [][/\ (adminPc' = "idle" /\ lastOp'.op = "SetCategoryPadding" /\ lastOp'.enabled) =>
             /\ categoryPadding'
             /\ IsMaxComposedLength(maxCategorySize', heap', loggers')
       /\ (Registered' /\ categoryPadding') =>
             IsMaxComposedLength(maxCategorySize', heap', loggers')
       /\ (lastOp'.op \in RegistrationOps /\ (nAdmin' # nAdmin \/ adminPc # "idle")
              /\ ~categoryPadding) => ~categoryPadding'
      ]_vars

\* SetCategoryPadding(false), then NewLogger with the longest category so far:
\* registered with padding still disabled
C20_WitnessDisabled ==
    /\ Registered /\ ~categoryPadding
    /\ Cardinality(loggers) = 3

\* two loggers registered by one AddLogger call with padding enabled, the
\* second with the longest composed category: maxCategorySize is its length
C20_Witness ==
    /\ Registered /\ categoryPadding
    /\ lastOp.op = "AddLogger" /\ lastOp.n = 2
    /\ Len(heap) = 3
    /\ maxCategorySize = Len(CategoryCompose(heap[3].Category))
    /\ maxCategorySize > Len(CategoryCompose(heap[1].Category))
    /\ maxCategorySize > Len(CategoryCompose(heap[2].Category))

\* ------------------------------------------------- claims on the queues

\* a step in which the poller leaves its loop
PollerExits == workerPc # "exited" /\ workerPc' = "exited"

\* C12: the poller exits only between entries: when it exits, every entry it
\* dequeued has been written and it holds none; once it has exited it never
\* dequeues or writes again; and a caller blocked in the send on logQueue after
\* the exit stays blocked for ever.
C12_StopOnlyBetweenEntries ==
    [][/\ PollerExits =>
             /\ workerPc = "select" /\ workerItem = NoItem
             /\ Len(written) = Len(dequeued)
       /\ workerPc = "exited" =>
             /\ workerPc' = "exited"
             /\ written' = written /\ dequeued' = dequeued
             /\ \A t \in Threads : pc[t] = "send" => pc'[t] = "send"
      ]_vars

\* StopPoller called while the poller holds an entry: the call is blocked
C12_WitnessPending ==
    /\ adminPc = "stopping"
    /\ workerPc = "padded"

\* the poller has exited after writing the entry it had dequeued, StopPoller has
\* returned, and a later call is blocked in its send on logQueue
C12_Witness ==
    /\ workerPc = "exited" /\ adminPc = "idle"
    /\ Len(written) = 1 /\ Len(dequeued) = 1
    /\ \E t \in Threads : pc[t] = "send" /\ frame[t].item.call > written[1].call

\* the calls whose lines have been written
WrittenCalls == {written[i].call : i \in 1 .. Len(written)}

\* the calls whose entries went to logQueueBuffer and are not written yet
BufferedPending == {c \in 1 .. Len(calls) : calls[c].sent > 0 /\ c \notin WrittenCalls}

\* StopPoller has not been called
NoShutdown == workerPc # "exited" /\ adminPc # "stopping"

\* C13: with no shutdown, the entries sent to logQueueBuffer never leave the
\* poller stuck: while one of them is not written yet the poller has a step to
\* take (so that a fair poller writes every one of them), and the entries of the
\* buffered path are written in the order they were sent.
C13_BufferedEntriesWrittenInOrder ==
    /\ (NoShutdown /\ BufferedPending # {}) => ENABLED Poller
    /\ \A i, j \in 1 .. Len(written) :
          (i < j /\ calls[written[i].call].sent > 0 /\ calls[written[j].call].sent > 0)
              => calls[written[i].call].sent < calls[written[j].call].sent

\* the poller takes its steps as long as it has one
SpecQueueFair == SpecQueue /\ WF_vars(Poller)

\* what a fair poller does reach: every entry sent to logQueueBuffer is written,
\* unless StopPoller is called or a panic ends the process
BufferedWrittenUnlessPanic ==
    \A c \in 1 .. MaxCalls :
        (c <= Len(calls) /\ calls[c].sent > 0)
            ~> (c \in WrittenCalls \/ ~NoShutdown \/ ~Running)

\* thread t leaves the program point p in this step
Leaves(t, p) == pc[t] = p /\ pc'[t] # p

\* C14: a call that finds buffering disabled sends on logQueue, and it returns
\* only in the step in which the poller dequeues its entry (the write is still
\* to come); at that moment every entry the poller dequeued earlier has been
\* written.
C14_SyncReturnsAtDequeue ==
    [][\A t \in Threads :
          /\ (Leaves(t, "incr") /\ ~bufferEnabled) => pc'[t] = "send"
          /\ Leaves(t, "send") =>
                /\ pc'[t] = "idle"
                /\ dequeued' = Append(dequeued, frame[t].item)
                /\ workerItem' = frame[t].item
                /\ Len(written) = Len(dequeued)
                /\ logQueueBuffer' = logQueueBuffer
      ]_vars

\* with buffering disabled throughout, both callers have returned: the first
\* entry is written, the second is dequeued and its write has not begun
C14_Witness ==
    /\ ~bufferEnabled /\ nAdmin = 0
    /\ \A t \in Threads : pc[t] = "idle"
    /\ Len(written) = 1 /\ Len(dequeued) = 2
    /\ workerPc = "dequeued"

C15_WitnessFull ==
    /\ Len(logQueueBuffer) = BufferSize
    /\ \E t \in Threads : pc[t] = "sendBuffer"

C16_WrittenToWriterAtCall ==
    \A i \in 1 .. Len(written) : written[i].writer = calls[written[i].call].writer

\* an entry waits in the buffer with the Writer of its call while its logger
\* has another Writer already
C16_WitnessQueued ==
    /\ logQueueBuffer # <<>>
    /\ logQueueBuffer[1].writer = "stdout"
    /\ heap[calls[logQueueBuffer[1].call].l].Writer = "file"

\* two calls on one logger, the first through the buffer: its line went to
\* stdout, the line of the second call to the file the logger has now
C16_Witness ==
    /\ Len(written) = 2
    /\ calls[written[1].call].l = calls[written[2].call].l
    /\ written[1].call < written[2].call
    /\ calls[written[1].call].sent > 0
    /\ written[1].writer = "stdout"
    /\ written[2].writer = "file"
    /\ heap[calls[written[2].call].l].Writer = "file"

\* a step in which the poller reads maxCategorySize: performWrite's padding
\* statement with categoryPadding true
PollerReadsMax ==
    /\ workerPc = "dequeued" /\ categoryPadding
    /\ workerPc' = "padded" \/ panic' # panic

\* C17: the poller never reads maxCategorySize between the reset to 0 and the
\* store of the new maximum by a NewLogger, AddLogger or SetCategoryPadding call
\* that runs at the same time.
C17_MaxNotReadMidRecompute ==
    [][PollerReadsMax => adminPc # "recompute"]_vars

\* C18: a step that completes a write leaves in previousCategory the category
\* name of the entry written, with grouping enabled or disabled, the label
\* blanked or not; every other step leaves previousCategory unchanged.
C18_PreviousIsNameOfLastWrite ==
    [][IF WritesLine
       THEN previousCategory' = workerItem.category.Name
       ELSE previousCategory' = previousCategory
      ]_vars

\* two writes of one category name with grouping disabled: both lines show the
\* label, and previousCategory is the name
C18_WitnessUngrouped ==
    /\ ~categoryGrouping
    /\ Len(written) = 2
    /\ written[1].text[1] = "[" /\ written[2].text[1] = "["
    /\ previousCategory = dequeued[2].category.Name
    /\ previousCategory = LOG

\* the second of two lines was written with a blanked label, and
\* previousCategory is its category name, not the blanks and not the label
C18_Witness ==
    /\ Len(written) = 2
    /\ written[1].text[1] = "["
    /\ written[2].text[1] = " "
    /\ previousCategory = dequeued[2].category.Name
    /\ previousCategory # <<>>

\* ------------------------------------------------- claims on Enable/Disable

\* the calls whose entry is held by a caller, by the buffer or by the poller
HeldCalls ==
    {frame[t].item.call : t \in {u \in Threads : pc[u] # "idle"}}
        \cup {logQueueBuffer[i].call : i \in 1 .. Len(logQueueBuffer)}
        \cup (IF InFlight THEN {workerItem.call} ELSE {})

\* a step that changes the Enabled flag of a logger
ChangesEnabled == \E l \in 1 .. Len(heap) : heap'[l].Enabled # heap[l].Enabled

\* the callers and the poller take their steps as long as they have one
SpecEnableFair ==
    /\ SpecEnable
    /\ WF_vars(PollerWrites)
    /\ \A t \in Threads : WF_vars(LogIncr(t) \/ LogSendBuffer(t))

\* C21: a step that changes Enabled flags (Enable, Disable,
\* SetEnabledByCategory, SetEnabledByID) touches no entry, wherever it is held;
\* the calls whose entries are held or written are exactly the calls that found
\* their logger enabled when they started, whatever happened to the flag
\* afterwards; and every such call's entry is eventually written (lines are
\* never taken back, so from some moment on all of them are written).
C21_DisableDoesNotRetract ==
    /\ [][/\ ChangesEnabled =>
                UNCHANGED <<logQueueBuffer, pc, frame, workerPc, workerItem, written,
                            dequeued, calls>>
          /\ \A c \in 1 .. Len(calls') :
                calls'[c].enabled <=> c \in HeldCalls' \cup WrittenCalls'
         ]_vars
    /\ <>[](\A c \in 1 .. Len(calls) : calls[c].enabled => c \in WrittenCalls)

\* an entry waits in the buffer while its logger is disabled already
C21_WitnessQueued ==
    /\ logQueueBuffer # <<>>
    /\ ~heap[calls[logQueueBuffer[1].call].l].Enabled

\* a logger's first call went through the buffer and is written; the logger is
\* disabled now and its second call found it disabled and left no entry
C21_Witness ==
    /\ Len(calls) = 2 /\ calls[1].l = calls[2].l
    /\ calls[1].enabled /\ calls[1].sent > 0
    /\ ~calls[2].enabled
    /\ ~heap[calls[1].l].Enabled
    /\ WrittenCalls = {1}
    /\ HeldCalls = {}

\* ------------------------------------------------- claims on the line format

\* C22: every line written is the category text (the composed category or
\* blanks of its length), then padding (spaces only), then the timestamp, one
\* space and the message text, followed by one line terminator for Log and Logf
\* and by two for Logln.
C22_LineFormat ==
    [][WritesLine =>
           LET text == Last(written').text
               k == Len(CategoryCompose(workerItem.category))
               col == TimestampColumn(text)
           IN /\ SubSeq(text, 1, k) \in {CategoryCompose(workerItem.category), Spaces(k)}
              /\ col >= k
              /\ \A i \in k + 1 .. col : text[i] = " "
              /\ SubSeq(text, col + 1, Len(text)) =
                     TimestampCompose \o <<" ">> \o RawMessage
                         \o (IF calls[workerItem.call].newline
                             THEN <<"\n", "\n">> ELSE <<"\n">>)
      ]_vars

\* a Log call and a Logln call, both written: the first line ends with one line
\* terminator, the second with two
C22_Witness ==
    /\ Len(written) = 2
    /\ ~calls[written[1].call].newline
    /\ calls[written[2].call].newline
    /\ SubSeq(written[1].text, Len(written[1].text) - 1, Len(written[1].text))
          = <<"m", "\n">>
    /\ SubSeq(written[2].text, Len(written[2].text) - 2, Len(written[2].text))
          = <<"m", "\n", "\n">>

\* ------------------------------------------------- claims on the two paths

\* C23 (as stated): the lines of a single caller's calls are written in call
\* order, also when SetBuffered is called between the calls.
C23_SingleCallerInCallOrder ==
    \A i, j \in 1 .. Len(written) : i < j => written[i].call < written[j].call

\* C23 (amended): a line of a single caller is written before the line of an
\* earlier call only when the earlier call's entry went to logQueueBuffer and
\* the later call's entry to logQueue: calls on one path, and a call on logQueue
\* followed by a call on logQueueBuffer, are written in call order.
C23_InCallOrderUnlessBufferedOvertaken ==
    \A i, j \in 1 .. Len(written) :
        (i < j /\ written[i].call > written[j].call) =>
            /\ calls[written[i].call].sent = 0
            /\ calls[written[j].call].sent > 0

\* the second call, sent on logQueue, is written before the first, which went
\* to logQueueBuffer
C23_WitnessOvertaken ==
    /\ Len(written) = 2
    /\ written[1].call = 2 /\ calls[2].sent = 0
    /\ written[2].call = 1 /\ calls[1].sent > 0

\* three calls written in call order: the first on logQueue, the second and the
\* third on logQueueBuffer after SetBuffered(true)
C23_Witness ==
    /\ Len(written) = 3
    /\ \A i \in 1 .. 3 : written[i].call = i
    /\ calls[1].sent = 0 /\ calls[2].sent = 1 /\ calls[3].sent = 2

\* C24: StopPoller does not drain logQueueBuffer.  Once the poller has exited,
\* the entries in the buffer stay there and are never written; each of them
\* comes from a call that has returned, after it incremented its logger's count.
C24_BufferNotDrainedAtExit ==
    [][workerPc = "exited" =>
           /\ Len(logQueueBuffer') >= Len(logQueueBuffer)
           /\ SubSeq(logQueueBuffer', 1, Len(logQueueBuffer)) = logQueueBuffer
           /\ \A i \in 1 .. Len(logQueueBuffer) :
                 LET c == logQueueBuffer[i].call
                 IN /\ c \notin WrittenCalls'
                    /\ calls[c].sent > 0
                    /\ \A t \in Threads : pc[t] # "idle" => frame[t].item.call # c
                    /\ heap[calls[c].l].count >= 1
      ]_vars

\* the poller took the exit signal with an entry in the buffer: StopPoller has
\* returned, one line is written, the second call has returned and counted,
\* and its entry is still in the buffer
C24_Witness ==
    /\ workerPc = "exited" /\ adminPc = "idle"
    /\ Len(written) = 1 /\ written[1].call = 1
    /\ Len(logQueueBuffer) = 1 /\ logQueueBuffer[1].call = 2
    /\ \A t \in Threads : pc[t] = "idle"
    /\ heap[calls[2].l].count = 2

====
